---- MODULE Spec2Model ----
(***************************************************************************)
(* Online exam attempt engine of rtsbackend: the student routes            *)
(* (app/routes/student_exams.py), the manager's verification routes        *)
(* (app/routes/exam_verification.py) and the question management routes    *)
(* (app/routes/exams.py) over the tables of app/models/exam.py.            *)
(*                                                                         *)
(* The model holds one exam.  A nullable column is <<>> (NULL) or <<v>>.   *)
(* Time is in seconds; the model's run stays inside one calendar day, so   *)
(* datetime.now() is `now`, its date is day 0 and its time of day is `now`.*)
(***************************************************************************)
EXTENDS Integers, Sequences, FiniteSets, TLC

(* ------------------------------ bounds -------------------------------- *)
\* the largest value of the clock
MaxClock == 90
\* the largest number of ExamAttempt rows
MaxAttempts == 2
\* the largest number of answers submit_answer saves in a run
MaxSaves == 2
\* the largest number of question management requests
MaxEdits == 1
\* the end of the schedule window of the exam's day
ScheduleEnd == 90
\* the amounts of time that may pass between two requests
TickChoices == {45}
\* the students calling the routes, and the managers
Students == {"s1", "s2"}
Managers == {"m1", "m2"}
\* the ids a Question row may get
QIds == <<"q1", "q2", "q3", "q4">>
QSet == {QIds[i] : i \in 1..Len(QIds)}
\* the option labels a student's request carries in the model (NULL or a label)
Labels == {"A", "B", "C", "D"}
AnswerInputs ==
  { [selected_option |-> <<>>, marked_for_review |-> TRUE],
    [selected_option |-> <<"A">>, marked_for_review |-> FALSE] }
\* the orders random.shuffle leaves the options list in, in the model: the original
\* labels by position
ShuffleDraws == { <<"A", "B", "C", "D">>, <<"B", "C", "A", "D">> }
\* the notes a verify request and an allow-retake request carry
VerifyNotes == {<<"ok">>}
RetakeNotes == {<<>>}
\* the attempt_ids lists a bulk request carries
BulkInputs == {<<1, 2>>, <<2, 2, 3>>}

(* --------------------------- nullable values -------------------------- *)
None == <<>>
Some(v) == <<v>>
Val(x) == x[1]

VARIABLES
  now,        \* the wall clock, datetime.now()
  exam,       \* the Exam row
  questions,  \* the Question rows of the exam, by id
  schedules,  \* the ExamSchedule rows of the exam
  enrolled,   \* students with an active StudentCourse for the exam's course
  paid,       \* students with a FeePayment for the exam's course
  attempts,   \* the ExamAttempt rows, in creation order (index = id)
  answers,    \* the StudentAnswer rows, in creation order
  edits,      \* the number of question management requests handled
  saves,      \* the number of answers saved by submit_answer
  inflight,   \* the requests between their first query and their last commit
  response    \* the response of the request handled by the last step

vars ==
  <<now, exam, questions, schedules, enrolled, paid, attempts, answers, edits, saves, inflight,
    response>>

TerminalStatuses == {"completed", "submitted", "timed_out"}

\* app/models/student.py: the batch of each student; one has no batch_identifier
StudentBatch(s) ==
  IF s = "s1" THEN [batch_time |-> "9AM-10AM", batch_identifier |-> None]
  ELSE [batch_time |-> "9AM-10AM", batch_identifier |-> Some("A")]

AttemptIds == 1..Len(attempts)

(* ----------------------------- sequences ------------------------------ *)
Range(seq) == {seq[i] : i \in 1..Len(seq)}

RECURSIVE SumSeq(_)
SumSeq(seq) ==
  IF seq = <<>> THEN 0 ELSE Head(seq) + SumSeq(Tail(seq))

\* the permutations of a finite set, as sequences
Perms(S) ==
  {p \in [1..Cardinality(S) -> S] : \A i, j \in 1..Cardinality(S) : p[i] = p[j] => i = j}

(* ------------------------------ the rows ------------------------------ *)
\* app/models/exam.py, Question: a row that exists is "live"
QLive(q) == questions[q].row = "live"

\* exam.questions (ordered by order_index, which follows creation) filtered by is_active
ActiveQuestions ==
  SelectSeq(QIds, LAMBDA q : QLive(q) /\ questions[q].is_active)

\* app/models/exam.py, ExamAttempt with the column defaults
NewAttempt(s, completed, question_ids, answer_order, schedule_id) ==
  [ student_id |-> s,
    schedule_id |-> schedule_id,
    attempt_number |-> completed + 1,
    start_time |-> now,
    end_time |-> None,
    time_remaining_seconds |-> exam.duration_minutes * 60,
    status |-> "in_progress",
    total_marks |-> None,
    obtained_marks |-> None,
    percentage |-> None,
    passed |-> None,
    total_answered |-> 0,
    correct_answers |-> 0,
    question_order |-> question_ids,
    answer_order |-> answer_order,
    is_verified |-> FALSE,
    verified_by |-> None,
    verified_at |-> None,
    verification_notes |-> None,
    retake_allowed |-> FALSE,
    retake_allowed_by |-> None,
    retake_allowed_at |-> None ]

\* app/models/exam.py, StudentAnswer with the column defaults
NewAnswer(attempt_id, question_id) ==
  [ attempt_id |-> attempt_id,
    question_id |-> question_id,
    selected_option |-> None,
    is_correct |-> None,
    marks_obtained |-> 0,
    marked_for_review |-> FALSE,
    answered_at |-> None ]

\* the StudentAnswer rows of an attempt, in a sequence of rows
AnswersOf(ans, aid) == SelectSeq(ans, LAMBDA r : r.attempt_id = aid)

(* ------------------------- the grading engine ------------------------- *)
\* (obtained_marks / total_marks) * 100 kept exact, as the pair <<numerator, denominator>>
Percentage(obtained_marks, total_marks) == <<obtained_marks * 100, total_marks>>

\* percentage >= passing_marks, on the exact pair
PctAtLeast(pct, passing_marks) == pct[1] >= passing_marks * pct[2]

\* a loop body that adds the question's marks to the marks the row already holds
GradeAnswerAdding(r) ==
  LET question == questions[r.question_id] IN
  IF QLive(r.question_id) /\ r.selected_option # None
       /\ Val(r.selected_option) = question.correct_option
  THEN [r EXCEPT !.is_correct = Some(TRUE),
                 !.marks_obtained = r.marks_obtained + question.marks]
  ELSE r

\* the body of the loop of _calculate_results for one StudentAnswer row
GradeAnswer(r) ==
  LET question == questions[r.question_id] IN
  IF ~QLive(r.question_id) THEN r
  ELSE IF r.selected_option # None
       THEN IF Val(r.selected_option) = question.correct_option
            THEN [r EXCEPT !.is_correct = Some(TRUE), !.marks_obtained = question.marks]
            ELSE [r EXCEPT !.is_correct = Some(FALSE), !.marks_obtained = 0]
       ELSE r

\* the rows _calculate_results counts: those of the attempt whose question exists
Counted(r, aid) == r.attempt_id = aid /\ QLive(r.question_id)

\* a grading that never stamps the attempt as verified
NoAutoVerify(att) == att

\* the verification stamp of _calculate_results (show_result_immediately)
AutoVerify(att) ==
  IF exam.show_result_immediately
  THEN [att EXCEPT !.is_verified = TRUE, !.verified_at = Some(now)]
  ELSE att

\* _calculate_results(attempt, db): the attempt and the answer rows after grading
calculate_results(att, aid, ans) ==
  LET idx == 1..Len(ans)
      total_marks ==
        SumSeq([i \in idx |-> IF Counted(ans[i], aid) THEN questions[ans[i].question_id].marks ELSE 0])
      IsRight(r) ==
        Counted(r, aid) /\ r.selected_option # None
          /\ Val(r.selected_option) = questions[r.question_id].correct_option
      obtained_marks ==
        SumSeq([i \in idx |-> IF IsRight(ans[i]) THEN questions[ans[i].question_id].marks ELSE 0])
      correct_count == Cardinality({i \in idx : IsRight(ans[i])})
      answered_count ==
        Cardinality({i \in idx : Counted(ans[i], aid) /\ ans[i].selected_option # None})
      percentage == IF total_marks > 0 THEN Percentage(obtained_marks, total_marks) ELSE <<0, 1>>
      passed == IF total_marks > 0 THEN PctAtLeast(percentage, exam.passing_marks) ELSE FALSE
      graded == [att EXCEPT !.total_marks = Some(total_marks),
                            !.obtained_marks = Some(obtained_marks),
                            !.correct_answers = correct_count,
                            !.total_answered = answered_count,
                            !.percentage = Some(percentage),
                            !.passed = Some(passed)]
  IN [ attempt |-> AutoVerify(graded),
       answers |-> [i \in idx |-> IF ans[i].attempt_id = aid THEN GradeAnswer(ans[i]) ELSE ans[i]] ]

(* ------------------------- the eligibility gate ----------------------- *)
Today == 0
CurrentTime == now

\* check_payment_status
check_payment_status(s) == s \in paid

\* the schedule rows the query of check_exam_schedule selects for the student
MatchingSchedules(s) ==
  { i \in 1..Len(schedules) :
      /\ schedules[i].is_active
      /\ schedules[i].batch_time = StudentBatch(s).batch_time
      /\ schedules[i].scheduled_date = Today
      /\ (StudentBatch(s).batch_identifier # None =>
            \/ schedules[i].batch_identifier = StudentBatch(s).batch_identifier
            \/ schedules[i].batch_identifier = None) }

\* the outcome of check_exam_schedule once .first() has returned row i
ScheduleOutcome(i) ==
  IF CurrentTime < schedules[i].start_time
    THEN [ok |-> FALSE, schedule |-> Some(i), message |-> "Exam starts at"]
  ELSE IF CurrentTime > schedules[i].end_time
    THEN [ok |-> FALSE, schedule |-> Some(i), message |-> "Exam time has ended"]
  ELSE [ok |-> TRUE, schedule |-> Some(i), message |-> ""]

\* check_exam_schedule: every result the call can give (.first() has no ORDER BY)
check_exam_schedule(s) ==
  IF MatchingSchedules(s) = {}
  THEN IF \E i \in 1..Len(schedules) :
            /\ schedules[i].is_active
            /\ schedules[i].batch_time = StudentBatch(s).batch_time
            /\ schedules[i].scheduled_date > Today
       THEN {[ok |-> FALSE, schedule |-> None, message |-> "Exam scheduled for"]}
       ELSE {[ok |-> FALSE, schedule |-> None, message |-> "Exam not scheduled for your batch"]}
  ELSE {ScheduleOutcome(i) : i \in MatchingSchedules(s)}

(* ----------------------------- responses ------------------------------ *)
Response(op, caller, code, detail, attempt_id, body) ==
  [op |-> op, caller |-> caller, code |-> code, detail |-> detail,
   attempt_id |-> attempt_id, body |-> body]

NoResponse == Response("none", "", 0, "", None, None)

\* raise HTTPException(status_code, detail)
Raise(op, caller, code, detail) == Response(op, caller, code, detail, None, None)

\* app/schemas/exam.py, ExamAttemptResponse built from an ExamAttempt row
ExamAttemptResponse(aid, att) ==
  [ id |-> aid,
    student_id |-> att.student_id,
    attempt_number |-> att.attempt_number,
    status |-> att.status,
    start_time |-> att.start_time,
    end_time |-> att.end_time,
    total_marks |-> att.total_marks,
    obtained_marks |-> att.obtained_marks,
    percentage |-> att.percentage,
    passed |-> att.passed,
    total_answered |-> att.total_answered,
    correct_answers |-> att.correct_answers,
    is_verified |-> att.is_verified,
    verified_at |-> att.verified_at ]

(* ------------------------ the attempt lifecycle ----------------------- *)
Max(a, b) == IF a >= b THEN a ELSE b

TimeLimit == exam.duration_minutes * 60

Elapsed(att) == now - att.start_time

\* a query for the in_progress attempts of a student that finds none
NoInProgress(s) == {}

InProgress(s) ==
  {a \in AttemptIds : attempts[a].student_id = s /\ attempts[a].status = "in_progress"}

Completed(s) ==
  {a \in AttemptIds : attempts[a].student_id = s /\ attempts[a].status \in TerminalStatuses}

\* the last attempt of the student by created_at (rows are kept in creation order)
LastAttempt(s) ==
  CHOOSE a \in AttemptIds :
    /\ attempts[a].student_id = s
    /\ \A b \in AttemptIds : attempts[b].student_id = s => b <= a

\* a forced transition that sets timed_out and end_time and skips the grading
TimeOutUngraded(aid) ==
  /\ attempts' = [attempts EXCEPT ![aid].status = "timed_out", ![aid].end_time = Some(now)]
  /\ answers' = answers

\* the forced transition of start_exam and submit_answer: timed_out, end_time, grading
TimeOut(aid) ==
  LET att == [attempts[aid] EXCEPT !.status = "timed_out", !.end_time = Some(now)]
      res == calculate_results(att, aid, answers)
  IN /\ attempts' = [attempts EXCEPT ![aid] = res.attempt]
     /\ answers' = res.answers

\* the expiry test of the resume path: remaining = max(0, time_limit - elapsed) <= 0
ResumeExpired(att) == Max(0, TimeLimit - Elapsed(att)) <= 0

\* an expiry test that never finds the time exceeded
NeverExpired(att) == FALSE

\* the expiry test of submit_answer: elapsed > duration_minutes * 60
AnswerExpired(att) == Elapsed(att) > TimeLimit

\* the questions of the response of start_exam: the rows of question_order that exist
QuestionsData(att) == SelectSeq(att.question_order, QLive)

\* Question.option_a .. option_d: the text of the option of question q with label key
OptionText(q, key) == <<q, key>>

\* start_exam, lines 366-377: the option texts of a question of the response, by label
RenderOptions(att, q) ==
  IF att.answer_order # <<>> /\ q \in DOMAIN att.answer_order
  THEN [new_key \in DOMAIN att.answer_order[q] |-> OptionText(q, att.answer_order[q][new_key])]
  ELSE [key \in Labels |-> OptionText(q, key)]

ExamAttemptStart(aid, att) ==
  [ attempt_id |-> aid,
    start_time |-> att.start_time,
    end_time |-> att.start_time + TimeLimit,
    total_questions |-> Len(QuestionsData(att)),
    questions |-> QuestionsData(att),
    options |-> [i \in 1..Len(QuestionsData(att)) |->
                   RenderOptions(att, QuestionsData(att)[i])] ]

\* a retake policy that refuses nothing
NoRefusal(s) == ""

\* a retake policy that never asks for the manager's grant
RefusalWithoutGrant(s) ==
  LET completed_attempts == Cardinality(Completed(s)) IN
  IF completed_attempts > 0 /\ ~exam.allow_retakes
    THEN "Exam already completed, retakes not allowed"
  ELSE IF completed_attempts > 0 /\ exam.max_retakes > 0
            /\ completed_attempts >= exam.max_retakes
    THEN "Maximum retake attempts reached"
  ELSE ""

\* the retake policy of start_exam: "" when a new attempt may be created
RetakeRefusal(s) ==
  LET completed_attempts == Cardinality(Completed(s)) IN
  IF completed_attempts > 0
  THEN IF ~exam.allow_retakes
         THEN "Exam already completed, retakes not allowed"
       ELSE IF exam.max_retakes > 0 /\ completed_attempts >= exam.max_retakes
         THEN "Maximum retake attempts reached"
       ELSE IF ~attempts[LastAttempt(s)].retake_allowed
         THEN "Awaiting retake permission from manager"
       ELSE ""
  ELSE ""

\* chr(65 + i), the label of position i + 1
NewKey(i) == <<"A", "B", "C", "D">>[i]

\* shuffle_options, 'map': the original label under each new label, for the shuffled list
shuffle_options(options) ==
  [new_key \in {NewKey(i) : i \in 1..Len(options)} |->
     options[CHOOSE i \in 1..Len(options) : NewKey(i) = new_key]]

\* every order random.shuffle can leave the list of the four options in
OptionOrders == Perms(Labels)

\* the maps shuffle_options returns in the model
ShuffleMaps == {shuffle_options(options) : options \in ShuffleDraws}

\* the question orders random.shuffle can leave
QuestionOrders ==
  IF exam.shuffle_questions THEN Perms(Range(ActiveQuestions)) ELSE {ActiveQuestions}

\* the answer_order maps shuffle_options can produce
AnswerOrders ==
  IF exam.shuffle_options THEN [Range(ActiveQuestions) -> ShuffleMaps] ELSE {<<>>}

\* start_exam, lines 308-337: the ExamAttempt row added and committed
InsertAttempt(s, completed, sch) ==
  /\ Len(attempts) < MaxAttempts
  /\ \E question_ids \in QuestionOrders, answer_order \in AnswerOrders :
       attempts' = Append(attempts, NewAttempt(s, completed, question_ids, answer_order,
                                               sch.schedule))

\* start_exam, lines 339-347: one empty StudentAnswer row per question of question_order
SeedAnswers(aid, att) ==
  answers' = answers \o [i \in 1..Len(att.question_order) |-> NewAnswer(aid, att.question_order[i])]

\* start_exam, the branch that creates the attempt and its empty answers
CreateAttempt(s, sch) ==
  LET aid == Len(attempts) + 1 IN
  /\ InsertAttempt(s, Cardinality(Completed(s)), sch)
  /\ SeedAnswers(aid, attempts'[aid])
  /\ response' = Response("start_exam", s, 200, "", Some(aid),
                          ExamAttemptStart(aid, attempts'[aid]))

\* a resume that draws the option maps again and stores none
ResumeForgetting(att, remaining) ==
  [att EXCEPT !.time_remaining_seconds = remaining, !.answer_order = <<>>]

\* start_exam, line 282: the only column a resume writes
ResumeWrite(att, remaining) ==
  [att EXCEPT !.time_remaining_seconds = remaining]

\* start_exam, the branch that resumes the in_progress attempt found
ResumeAttempt(s, aid) ==
  IF ResumeExpired(attempts[aid])
  THEN /\ TimeOut(aid)
       /\ response' = Raise("start_exam", s, 400, "Exam time has expired")
  ELSE LET remaining == Max(0, TimeLimit - Elapsed(attempts[aid])) IN
       /\ attempts' = [attempts EXCEPT ![aid] = ResumeWrite(attempts[aid], remaining)]
       /\ answers' = answers
       /\ response' = Response("start_exam", s, 200, "", Some(aid),
                               ExamAttemptStart(aid, attempts'[aid]))

\* start_exam, lines 232-256: the exam, enrollment, payment and schedule checks
StartGate(s, sch) ==
  IF ~exam.is_active THEN Raise("start_exam", s, 404, "Exam not found")
  ELSE IF s \notin enrolled THEN Raise("start_exam", s, 403, "Not enrolled in this course")
  ELSE IF ~check_payment_status(s)
    THEN Raise("start_exam", s, 403, "Payment required to take this exam")
  ELSE IF ~sch.ok THEN Raise("start_exam", s, 403, sch.message)
  ELSE NoResponse

\* start_exam, lines 285-313: the retake policy and the check that questions exist
StartPolicy(s) ==
  IF RetakeRefusal(s) # "" THEN Raise("start_exam", s, 403, RetakeRefusal(s))
  ELSE IF ActiveQuestions = <<>>
    THEN Raise("start_exam", s, 400, "No questions available in this exam")
  ELSE NoResponse

\* POST /{exam_id}/start, handled without another request in between
start_exam(s) ==
  /\ response = NoResponse
  /\ UNCHANGED <<inflight, now, exam, questions, schedules, enrolled, paid, edits, saves>>
  /\ \E sch \in check_exam_schedule(s) :
       IF StartGate(s, sch) # NoResponse
         THEN /\ response' = StartGate(s, sch)
              /\ UNCHANGED <<attempts, answers>>
       ELSE IF InProgress(s) # {}
         THEN \E aid \in InProgress(s) : ResumeAttempt(s, aid)
       ELSE IF StartPolicy(s) # NoResponse
         THEN /\ response' = StartPolicy(s)
              /\ UNCHANGED <<attempts, answers>>
       ELSE CreateAttempt(s, sch)

\* the ids of the start_exam requests that can be in flight together
RequestIds == {"r1", "r2"}

\* start_exam up to line 306, for a request that found nothing to refuse or resume
start_exam_check(r, s) ==
  /\ r \notin DOMAIN inflight
  /\ \E sch \in check_exam_schedule(s) :
       /\ StartGate(s, sch) = NoResponse
       /\ InProgress(s) = {}
       /\ StartPolicy(s) = NoResponse
       /\ inflight' = [x \in DOMAIN inflight \cup {r} |->
                         IF x = r
                         THEN [student |-> s, sch |-> sch,
                               completed |-> Cardinality(Completed(s)), attempt_id |-> None]
                         ELSE inflight[x]]
  /\ UNCHANGED <<now, exam, questions, schedules, enrolled, paid, attempts, answers, edits,
                 saves, response>>

\* start_exam, the commit of line 336: the new ExamAttempt row becomes visible
start_exam_commit(r) ==
  /\ r \in DOMAIN inflight
  /\ inflight[r].attempt_id = None
  /\ InsertAttempt(inflight[r].student, inflight[r].completed, inflight[r].sch)
  /\ inflight' = [inflight EXCEPT ![r].attempt_id = Some(Len(attempts) + 1)]
  /\ UNCHANGED <<now, exam, questions, schedules, enrolled, paid, answers, edits, saves,
                 response>>

\* start_exam, the commit of line 347 and the response
start_exam_finish(r) ==
  /\ r \in DOMAIN inflight
  /\ inflight[r].attempt_id # None
  /\ LET aid == Val(inflight[r].attempt_id) IN
     /\ SeedAnswers(aid, attempts[aid])
     /\ response' = Response("start_exam", inflight[r].student, 200, "", Some(aid),
                             ExamAttemptStart(aid, attempts[aid]))
  /\ inflight' = [x \in DOMAIN inflight \ {r} |-> inflight[x]]
  /\ UNCHANGED <<now, exam, questions, schedules, enrolled, paid, attempts, edits, saves>>

\* a request that stores the label the student saw
StoreDisplayed(att, question_id, selected_option) == selected_option

\* submit_answer: the label stored, mapped back through answer_order when it holds the question
MapSelected(att, question_id, selected_option) ==
  IF selected_option # None /\ att.answer_order # <<>>
       /\ question_id \in DOMAIN att.answer_order
  THEN Some(att.answer_order[question_id][Val(selected_option)])
  ELSE selected_option

\* a status guard that lets every attempt through
AnyStatus(att) == TRUE

\* the guard of submit_answer and submit_exam on the status of the attempt
IsInProgress(att) == att.status = "in_progress"

\* a save that also counts the answer on the attempt
SaveCounting(att, remaining) ==
  [att EXCEPT !.time_remaining_seconds = remaining, !.total_answered = @ + 1]

\* submit_answer, lines 505-507: the only column of the attempt a save writes
SaveStamp(att, remaining) ==
  [att EXCEPT !.time_remaining_seconds = remaining]

\* submit_answer, after the status and time checks: find or create the row and write it
SaveAnswer(s, aid, question_id, selected_option, marked_for_review) ==
  LET att == attempts[aid]
      found == {i \in 1..Len(answers) :
                  answers[i].attempt_id = aid /\ answers[i].question_id = question_id}
      remaining == Max(0, TimeLimit - Elapsed(att))
      write(r) == [r EXCEPT !.selected_option = MapSelected(att, question_id, selected_option),
                            !.marked_for_review = marked_for_review,
                            !.answered_at = Some(now)]
      saved == Response("submit_answer", s, 200, "saved", Some(aid), [time_remaining |-> remaining])
  IN IF found # {}
     THEN \E i \in found :
            /\ answers' = [answers EXCEPT ![i] = write(answers[i])]
            /\ attempts' = [attempts EXCEPT ![aid] = SaveStamp(att, remaining)]
            /\ response' = saved
     ELSE IF ~QLive(question_id)
     THEN \* the foreign key of student_answers.question_id fails the commit
          /\ response' = Raise("submit_answer", s, 500, "IntegrityError")
          /\ UNCHANGED <<attempts, answers>>
     ELSE /\ answers' = Append(answers, write(NewAnswer(aid, question_id)))
          /\ attempts' = [attempts EXCEPT ![aid] = SaveStamp(att, remaining)]
          /\ response' = saved

\* POST /attempts/{attempt_id}/answer
submit_answer(s, aid, question_id, selected_option, marked_for_review) ==
  /\ response = NoResponse
  /\ UNCHANGED <<inflight, now, exam, questions, schedules, enrolled, paid, edits>>
  /\ IF attempts[aid].student_id # s
       THEN /\ response' = Raise("submit_answer", s, 404, "Attempt not found")
            /\ UNCHANGED <<attempts, answers>>
     ELSE IF ~IsInProgress(attempts[aid])
       THEN /\ response' = Raise("submit_answer", s, 400, "Cannot modify exam")
            /\ UNCHANGED <<attempts, answers>>
     ELSE IF AnswerExpired(attempts[aid])
       THEN /\ TimeOut(aid)
            /\ response' = Raise("submit_answer", s, 400, "Exam time has expired")
     ELSE SaveAnswer(s, aid, question_id, selected_option, marked_for_review)
  /\ saves' = IF response'.code = 200 THEN saves + 1 ELSE saves
  /\ saves' <= MaxSaves

\* a submit that sets the status and grades but leaves end_time unset
SubmitUnstamped(aid) ==
  LET res == calculate_results([attempts[aid] EXCEPT !.status = "submitted"], aid, answers)
  IN /\ attempts' = [attempts EXCEPT ![aid] = res.attempt]
     /\ answers' = res.answers

\* submit_exam, after the status check: submitted, end_time, grading
SubmitTransition(aid) ==
  LET att == [attempts[aid] EXCEPT !.status = "submitted", !.end_time = Some(now)]
      res == calculate_results(att, aid, answers)
  IN /\ attempts' = [attempts EXCEPT ![aid] = res.attempt]
     /\ answers' = res.answers

\* POST /attempts/{attempt_id}/submit
submit_exam(s, aid) ==
  /\ response = NoResponse
  /\ UNCHANGED <<inflight, now, exam, questions, schedules, enrolled, paid, edits, saves>>
  /\ IF attempts[aid].student_id # s
       THEN /\ response' = Raise("submit_exam", s, 404, "Attempt not found")
            /\ UNCHANGED <<attempts, answers>>
     ELSE IF ~IsInProgress(attempts[aid])
       THEN /\ response' = Raise("submit_exam", s, 400, "Exam is already")
            /\ UNCHANGED <<attempts, answers>>
     ELSE /\ SubmitTransition(aid)
          /\ response' = Response("submit_exam", s, 200, "", Some(aid),
                                  ExamAttemptResponse(aid, attempts'[aid]))

(* ----------------------- requests that overlap ------------------------ *)
\* Each request has its own session.  Between its query and its commit another request
\* can commit; the session keeps the values it loaded.

\* the row an UPDATE leaves: the columns the session changed on the object it loaded
\* replace those of the row as it is now, the other columns keep the row's values
Flush(loaded, row, changed) ==
  [col \in DOMAIN row |-> IF changed[col] # loaded[col] THEN changed[col] ELSE row[col]]

\* a request that has run its query: what its session loaded and what it decided there
Loaded(op, s, aid, rows, expired, answer_data) ==
  [ op |-> op, student |-> s, attempt_id |-> aid, attempt |-> attempts[aid],
    answers |-> rows, expired |-> expired, elapsed |-> Elapsed(attempts[aid]),
    answer_data |-> answer_data ]

Admit(r, request) ==
  /\ r \notin DOMAIN inflight
  /\ inflight' = [x \in DOMAIN inflight \cup {r} |-> IF x = r THEN request ELSE inflight[x]]
  /\ UNCHANGED <<now, exam, questions, schedules, enrolled, paid, attempts, answers, edits,
                 saves, response>>

Retire(r) == inflight' = [x \in DOMAIN inflight \ {r} |-> inflight[x]]

\* the transition and grading of a request whose session loaded the attempt as
\* in_progress, on the answer rows its session holds, flushed over the rows as they are
Finish(p, status, rows) ==
  LET aid == p.attempt_id
      res == calculate_results([p.attempt EXCEPT !.status = status, !.end_time = Some(now)],
                               aid, rows)
  IN /\ attempts' = [attempts EXCEPT ![aid] = Flush(p.attempt, attempts[aid], res.attempt)]
     /\ answers' = [i \in 1..Len(answers) |->
                      IF answers[i].attempt_id = aid
                      THEN Flush(rows[i], answers[i], res.answers[i])
                      ELSE answers[i]]

\* submit_exam, lines 525-537: the attempt and its answers are loaded, the attempt is the
\* caller's and in_progress
submit_exam_read(r, s, aid) ==
  /\ attempts[aid].student_id = s
  /\ attempts[aid].status = "in_progress"
  /\ Admit(r, Loaded("submit_exam", s, aid, answers, FALSE, None))

\* submit_exam, lines 539-547: the answer rows loaded with the attempt keep the values
\* the session loaded, rows added since are read by the query of _calculate_results
submit_exam_write(r) ==
  /\ r \in DOMAIN inflight
  /\ inflight[r].op = "submit_exam"
  /\ LET p == inflight[r]
         rows == [i \in 1..Len(answers) |->
                    IF i <= Len(p.answers) THEN p.answers[i] ELSE answers[i]]
     IN /\ Finish(p, "submitted", rows)
        /\ response' = Response("submit_exam", p.student, 200, "", Some(p.attempt_id),
                                ExamAttemptResponse(p.attempt_id, attempts'[p.attempt_id]))
  /\ Retire(r)
  /\ UNCHANGED <<now, exam, questions, schedules, enrolled, paid, edits, saves>>

\* submit_answer, lines 458-473: the attempt is loaded, it is the caller's and
\* in_progress, and the elapsed time is compared with the duration
submit_answer_read(r, s, aid, question_id, selected_option, marked_for_review) ==
  /\ attempts[aid].student_id = s
  /\ attempts[aid].status = "in_progress"
  /\ Admit(r, Loaded("submit_answer", s, aid, <<>>, AnswerExpired(attempts[aid]),
                     Some([question_id |-> question_id, selected_option |-> selected_option,
                           marked_for_review |-> marked_for_review])))

\* submit_answer, lines 474-511: the forced timeout, or the row found or created and
\* written with the time left at the read
submit_answer_write(r) ==
  /\ r \in DOMAIN inflight
  /\ inflight[r].op = "submit_answer"
  /\ LET p == inflight[r]
         aid == p.attempt_id
         data == Val(p.answer_data)
         found == {i \in 1..Len(answers) :
                     answers[i].attempt_id = aid /\ answers[i].question_id = data.question_id}
         remaining == Max(0, TimeLimit - p.elapsed)
         write(row) ==
           [row EXCEPT !.selected_option =
                         MapSelected(p.attempt, data.question_id, data.selected_option),
                       !.marked_for_review = data.marked_for_review,
                       !.answered_at = Some(now)]
         stamped == [attempts EXCEPT ![aid] =
                       Flush(p.attempt, attempts[aid], SaveStamp(p.attempt, remaining))]
         saved == Response("submit_answer", p.student, 200, "saved", Some(aid),
                           [time_remaining |-> remaining])
     IN IF p.expired
        THEN /\ Finish(p, "timed_out", answers)
             /\ response' = Raise("submit_answer", p.student, 400, "Exam time has expired")
        ELSE IF found # {}
        THEN \E i \in found :
               /\ answers' = [answers EXCEPT ![i] = write(answers[i])]
               /\ attempts' = stamped
               /\ response' = saved
        ELSE IF ~QLive(data.question_id)
        THEN /\ response' = Raise("submit_answer", p.student, 500, "IntegrityError")
             /\ UNCHANGED <<attempts, answers>>
        ELSE /\ answers' = Append(answers, write(NewAnswer(aid, data.question_id)))
             /\ attempts' = stamped
             /\ response' = saved
  /\ Retire(r)
  /\ UNCHANGED <<now, exam, questions, schedules, enrolled, paid, edits, saves>>

\* start_exam, lines 232-274: the checks pass, the in_progress attempt is loaded and its
\* time is found expired
start_exam_found(r, s) ==
  \E sch \in check_exam_schedule(s), aid \in InProgress(s) :
    /\ StartGate(s, sch) = NoResponse
    /\ ResumeExpired(attempts[aid])
    /\ Admit(r, Loaded("start_exam", s, aid, <<>>, TRUE, None))

\* start_exam, lines 275-280: the forced timeout of the attempt the request loaded
start_exam_timeout(r) ==
  /\ r \in DOMAIN inflight
  /\ inflight[r].op = "start_exam"
  /\ Finish(inflight[r], "timed_out", answers)
  /\ response' = Raise("start_exam", inflight[r].student, 400, "Exam time has expired")
  /\ Retire(r)
  /\ UNCHANGED <<now, exam, questions, schedules, enrolled, paid, edits, saves>>

(* ------------------------- the student's lists ------------------------ *)
\* app/schemas/exam.py, ExamResultResponse built by get_my_results
ExamResultResponse(aid, att) ==
  [ attempt_id |-> aid,
    attempt_number |-> att.attempt_number,
    status |-> att.status,
    total_questions |-> Len(att.question_order),
    total_answered |-> att.total_answered,
    correct_answers |-> att.correct_answers,
    total_marks |-> IF att.total_marks = None THEN 0 ELSE Val(att.total_marks),
    obtained_marks |-> IF att.obtained_marks = None THEN 0 ELSE Val(att.obtained_marks),
    percentage |-> IF att.percentage = None THEN <<0, 1>> ELSE Val(att.percentage),
    passed |-> IF att.passed = None THEN FALSE ELSE Val(att.passed),
    is_verified |-> att.is_verified,
    verified_at |-> att.verified_at ]

\* a filter on the student alone
OwnAttempt(s, att) == att.student_id = s

\* the filter of the query of get_my_results
InMyResults(s, att) == att.student_id = s /\ att.is_verified = TRUE

\* GET /results: the ExamResultResponse entries returned to student s
get_my_results(s) ==
  {ExamResultResponse(a, attempts[a]) : a \in {b \in AttemptIds : InMyResults(s, attempts[b])}}

\* percentage or 0, the key of max() in get_available_exams
PctOrZero(att) == IF att.percentage = None THEN <<0, 1>> ELSE Val(att.percentage)

\* p < q on exact percentages
PctLess(p, q) == p[1] * q[2] < q[1] * p[2]

\* the attempts max(completed_attempts, key=percentage or 0) can return
BestAttempts(s) ==
  {a \in Completed(s) :
     \A b \in Completed(s) : ~PctLess(PctOrZero(attempts[a]), PctOrZero(attempts[b]))}

\* best_score of get_available_exams, given the attempt max() returned
BestScore(best) ==
  IF attempts[best].is_verified THEN attempts[best].percentage ELSE None

\* the lock state get_available_exams computes for the exam
LockState(s, sch) ==
  LET previous_attempts == Cardinality({a \in AttemptIds : attempts[a].student_id = s})
      last_attempt == CHOOSE a \in Completed(s) : \A b \in Completed(s) : b <= a
  IN IF ~check_payment_status(s)
       THEN [is_locked |-> TRUE, lock_reason |-> "Payment pending", can_retake |-> FALSE]
     ELSE IF ~sch.ok
       THEN [is_locked |-> TRUE, lock_reason |-> sch.message, can_retake |-> FALSE]
     ELSE IF Completed(s) # {}
       THEN IF exam.allow_retakes
            THEN IF exam.max_retakes = 0 \/ previous_attempts < exam.max_retakes
                 THEN IF attempts[last_attempt].retake_allowed
                      THEN [is_locked |-> FALSE, lock_reason |-> "", can_retake |-> TRUE]
                      ELSE [is_locked |-> TRUE, lock_reason |-> "Awaiting retake permission",
                            can_retake |-> FALSE]
                 ELSE [is_locked |-> TRUE, lock_reason |-> "Maximum retakes reached",
                       can_retake |-> FALSE]
            ELSE [is_locked |-> TRUE, lock_reason |-> "Exam already completed",
                  can_retake |-> FALSE]
     ELSE [is_locked |-> FALSE, lock_reason |-> "", can_retake |-> FALSE]

\* GET /available: the AvailableExamResponse lists the call can return to student s
get_available_exams(s) ==
  IF s \notin enrolled \/ ~exam.is_active THEN {<<>>}
  ELSE { << [ lock |-> LockState(s, sch),
              previous_attempts |-> Cardinality({a \in AttemptIds : attempts[a].student_id = s}),
              best_score |-> IF best = 0 THEN None ELSE BestScore(best) ] >> :
           sch \in check_exam_schedule(s),
           best \in IF Completed(s) = {} THEN {0} ELSE BestAttempts(s) }

(* ----------------------- the verification workflow -------------------- *)
ExamInstitution == "i1"
ManagerRole(m) == "staff_manager"
ManagerInstitution(m) == IF m = "m1" THEN "i1" ELSE "i2"

\* check_resource_access for a manager who is not super_admin
HasAccess(m) == ManagerRole(m) = "super_admin" \/ ManagerInstitution(m) = ExamInstitution

\* a status check of the verification routes that passes every attempt
EveryAttempt(att) == TRUE

IsTerminal(att) == att.status \in TerminalStatuses

\* the writes of verify_attempt
MarkVerified(att, m, notes) ==
  [att EXCEPT !.is_verified = TRUE, !.verified_by = Some(m),
              !.verified_at = Some(now), !.verification_notes = notes]

\* POST /{attempt_id}/verify
verify_attempt(m, aid, notes) ==
  /\ response = NoResponse
  /\ UNCHANGED <<inflight, now, exam, questions, schedules, enrolled, paid, answers, edits, saves>>
  /\ IF ~HasAccess(m)
       THEN /\ response' = Raise("verify_attempt", m, 403, "Access denied to this institution")
            /\ UNCHANGED attempts
     ELSE IF ~IsTerminal(attempts[aid])
       THEN /\ response' = Raise("verify_attempt", m, 400, "Cannot verify an in-progress exam")
            /\ UNCHANGED attempts
     ELSE IF attempts[aid].is_verified
       THEN /\ response' = Raise("verify_attempt", m, 400, "Attempt already verified")
            /\ UNCHANGED attempts
     ELSE /\ attempts' = [attempts EXCEPT ![aid] = MarkVerified(attempts[aid], m, notes)]
          /\ response' = Response("verify_attempt", m, 200, "", Some(aid),
                                  ExamAttemptResponse(aid, attempts'[aid]))

\* writes that grant the retake and leave the verification fields alone
GrantOnly(att, m, notes) ==
  [att EXCEPT !.retake_allowed = TRUE, !.retake_allowed_by = Some(m),
              !.retake_allowed_at = Some(now)]

\* the writes of allow_retake
GrantRetake(att, m, notes) ==
  LET granted == [att EXCEPT !.retake_allowed = TRUE, !.retake_allowed_by = Some(m),
                             !.retake_allowed_at = Some(now)]
  IN IF ~att.is_verified THEN MarkVerified(granted, m, notes) ELSE granted

\* POST /{attempt_id}/allow-retake
allow_retake(m, aid, notes) ==
  /\ response = NoResponse
  /\ UNCHANGED <<inflight, now, exam, questions, schedules, enrolled, paid, answers, edits, saves>>
  /\ IF ~HasAccess(m)
       THEN /\ response' = Raise("allow_retake", m, 403, "Access denied to this institution")
            /\ UNCHANGED attempts
     ELSE IF ~IsTerminal(attempts[aid])
       THEN /\ response' = Raise("allow_retake", m, 400, "Cannot allow retake for an in-progress exam")
            /\ UNCHANGED attempts
     ELSE /\ attempts' = [attempts EXCEPT ![aid] = GrantRetake(attempts[aid], m, notes)]
          /\ response' = Response("allow_retake", m, 200, "", Some(aid),
                                  ExamAttemptResponse(aid, attempts'[aid]))

\* a bulk verification that reports every requested id as verified
BulkCountListed(m, ids, atts, verified_count) ==
  [ attempts |->
      [a \in 1..Len(atts) |->
         IF a \in Range(ids) /\ HasAccess(m) /\ IsTerminal(atts[a]) /\ ~atts[a].is_verified
         THEN [atts[a] EXCEPT !.is_verified = TRUE, !.verified_by = Some(m),
                              !.verified_at = Some(now)]
         ELSE atts[a]],
    verified_count |-> verified_count + Len(ids) ]

\* the loop of verify_bulk over attempt_ids: the rows and verified_count after it
RECURSIVE BulkLoop(_, _, _, _)
BulkLoop(m, ids, atts, verified_count) ==
  IF ids = <<>> THEN [attempts |-> atts, verified_count |-> verified_count]
  ELSE LET aid == Head(ids) IN
       IF \/ aid \notin 1..Len(atts)
          \/ ~HasAccess(m)
          \/ ~IsTerminal(atts[aid])
          \/ atts[aid].is_verified
       THEN BulkLoop(m, Tail(ids), atts, verified_count)
       ELSE BulkLoop(m, Tail(ids),
                     [atts EXCEPT ![aid] = [@ EXCEPT !.is_verified = TRUE,
                                                     !.verified_by = Some(m),
                                                     !.verified_at = Some(now)]],
                     verified_count + 1)

\* POST /verify-bulk
verify_bulk(m, attempt_ids) ==
  /\ response = NoResponse
  /\ UNCHANGED <<inflight, now, exam, questions, schedules, enrolled, paid, answers, edits, saves>>
  /\ LET res == BulkLoop(m, attempt_ids, attempts, 0) IN
     /\ attempts' = res.attempts
     /\ response' = Response("verify_bulk", m, 200, "", None,
                             [verified_count |-> res.verified_count,
                              total_requested |-> Len(attempt_ids)])

(* ------------------------ question management ------------------------- *)
\* the session of app/database.py does not flush pending rows before a query
Autoflush == FALSE

\* db.query(func.count(Question.id)).filter(is_active == True) over the rows qs
ActiveCount(qs) == Cardinality({q \in QSet : qs[q].row = "live" /\ qs[q].is_active})

\* the QuestionCreate requests of the model
AddInputs == {[marks |-> 2, correct_option |-> "D"]}

\* the fields a QuestionUpdate request sets in the model (NULL = not set)
UpdateInputs ==
  { [is_active |-> Some(FALSE), correct_option |-> None, marks |-> None],
    [is_active |-> Some(TRUE), correct_option |-> None, marks |-> None],
    [is_active |-> None, correct_option |-> Some("C"), marks |-> Some(2)] }

\* POST /{exam_id}/questions: the new row takes the next unused id
add_question(q, marks, correct_option) ==
  /\ response = NoResponse
  /\ edits < MaxEdits
  /\ questions[q].row = "unused"
  /\ \A p \in QSet : questions[p].row = "unused" => ~(\E i, j \in 1..Len(QIds) : QIds[i] = p /\ QIds[j] = q /\ i < j)
  /\ LET added == [questions EXCEPT ![q] = [row |-> "live", marks |-> marks,
                                            correct_option |-> correct_option,
                                            is_active |-> TRUE]]
     IN /\ questions' = added
        /\ exam' = [exam EXCEPT !.total_questions =
                      ActiveCount(IF Autoflush THEN added ELSE questions) + 1]
  /\ edits' = edits + 1
  /\ response' = Response("add_question", "m1", 201, "", None, None)
  /\ UNCHANGED <<inflight, now, schedules, enrolled, paid, attempts, answers, saves>>

\* PATCH /questions/{question_id}
update_question(q, update_data) ==
  /\ response = NoResponse
  /\ edits < MaxEdits
  /\ QLive(q)
  /\ LET new == [questions EXCEPT ![q] =
                   [ row |-> "live",
                     marks |-> IF update_data.marks = None THEN @.marks
                               ELSE Val(update_data.marks),
                     correct_option |-> IF update_data.correct_option = None
                                        THEN @.correct_option
                                        ELSE Val(update_data.correct_option),
                     is_active |-> IF update_data.is_active = None THEN @.is_active
                                   ELSE Val(update_data.is_active) ]]
     IN /\ questions' = new
        /\ exam' = IF update_data.is_active # None
                   THEN [exam EXCEPT !.total_questions = ActiveCount(new)]
                   ELSE exam
  /\ edits' = edits + 1
  /\ response' = Response("update_question", "m1", 200, "", None, None)
  /\ UNCHANGED <<inflight, now, schedules, enrolled, paid, attempts, answers, saves>>

\* DELETE /questions/{question_id}: the delete cascades to the question's student_answers
delete_question(q) ==
  /\ response = NoResponse
  /\ edits < MaxEdits
  /\ QLive(q)
  /\ LET removed == [questions EXCEPT ![q].row = "deleted"]
     IN /\ questions' = removed
        /\ exam' = [exam EXCEPT !.total_questions =
                      ActiveCount(IF Autoflush THEN removed ELSE questions) - 1]
  /\ answers' = SelectSeq(answers, LAMBDA r : r.question_id # q)
  /\ edits' = edits + 1
  /\ response' = Response("delete_question", "m1", 204, "", None, None)
  /\ UNCHANGED <<inflight, now, schedules, enrolled, paid, attempts, saves>>

(* ------------------------------ the clock ----------------------------- *)
Tick(d) ==
  /\ response = NoResponse
  /\ now + d <= MaxClock
  /\ now' = now + d
  /\ response' = NoResponse
  /\ UNCHANGED <<inflight, exam, questions, schedules, enrolled, paid, attempts, answers, edits, saves>>

(* ------------------------- the specification -------------------------- *)
\* app/models/exam.py and app/schemas/exam.py: the exams of the model
ExamBase ==
  [ total_questions |-> 2, passing_marks |-> 40, duration_minutes |-> 1, is_active |-> TRUE,
    allow_retakes |-> FALSE, max_retakes |-> 0, shuffle_questions |-> FALSE,
    shuffle_options |-> TRUE, show_result_immediately |-> TRUE ]

\* no retake, results released by a manager
ExamManual ==
  [ExamBase EXCEPT !.shuffle_options = FALSE, !.show_result_immediately = FALSE]

\* retakes without a limit, results released by a manager
ExamRetakes ==
  [ExamManual EXCEPT !.allow_retakes = TRUE]

\* two attempts at most (max_retakes = 2), results released by a manager
ExamMaxRetakes ==
  [ExamRetakes EXCEPT !.max_retakes = 2]

ExamConfigs == {ExamBase, ExamManual, ExamRetakes, ExamMaxRetakes}

InitQuestions ==
  [q \in QSet |->
     IF q = "q1" THEN [row |-> "live", marks |-> 1, correct_option |-> "A", is_active |-> TRUE]
     ELSE IF q = "q2" THEN [row |-> "live", marks |-> 2, correct_option |-> "B", is_active |-> TRUE]
     ELSE IF q = "q3" THEN [row |-> "live", marks |-> 1, correct_option |-> "C", is_active |-> FALSE]
     ELSE [row |-> "unused", marks |-> 1, correct_option |-> "A", is_active |-> TRUE]]

InitSchedules ==
  << [batch_time |-> "9AM-10AM", batch_identifier |-> None, scheduled_date |-> 0,
      start_time |-> 0, end_time |-> ScheduleEnd, is_active |-> TRUE] >>

\* the tables before the first request: no attempt, no answer
InitTables ==
  /\ now = 0
  /\ exam \in ExamConfigs
  /\ questions = InitQuestions
  /\ schedules = InitSchedules
  /\ enrolled = Students
  /\ attempts = <<>>
  /\ answers = <<>>
  /\ edits = 0
  /\ inflight = <<>>
  /\ response = NoResponse

\* one student has paid the course fee, the other has not
Init ==
  /\ InitTables
  /\ exam \in {ExamBase, ExamManual}
  /\ paid = {"s1"}
  /\ saves = 0

\* the caller receives the response; the next request is handled after that
Deliver ==
  /\ response # NoResponse
  /\ response' = NoResponse
  /\ UNCHANGED <<inflight, now, exam, questions, schedules, enrolled, paid, attempts, answers, edits, saves>>

Next ==
  \/ \E s \in Students : start_exam(s)
  \/ \E s \in Students, aid \in AttemptIds, question_id \in QSet, answer_data \in AnswerInputs :
       submit_answer(s, aid, question_id, answer_data.selected_option,
                     answer_data.marked_for_review)
  \/ \E s \in Students, aid \in AttemptIds : submit_exam(s, aid)
  \/ \E m \in Managers, aid \in AttemptIds, notes \in VerifyNotes : verify_attempt(m, aid, notes)
  \/ \E m \in Managers, aid \in AttemptIds, notes \in RetakeNotes : allow_retake(m, aid, notes)
  \/ \E m \in Managers, attempt_ids \in BulkInputs : verify_bulk(m, attempt_ids)
  \/ Deliver
  \/ \E d \in TickChoices : Tick(d)

\* requests are handled one at a time: one student has paid, the other has not
Spec == Init /\ [][Next]_vars

\* both students have paid and take the exam; no answer is saved
InitTwo ==
  /\ InitTables
  /\ exam = ExamRetakes
  /\ paid = Students
  /\ saves = MaxSaves

SpecTwo == InitTwo /\ [][Next]_vars

\* the same requests and the manager's question management; no answer is saved
NextQ ==
  \/ Next
  \/ \E q \in QSet, question_data \in AddInputs :
       add_question(q, question_data.marks, question_data.correct_option)
  \/ \E q \in QSet, update_data \in UpdateInputs : update_question(q, update_data)
  \/ \E q \in QSet : delete_question(q)

InitQ ==
  /\ InitTables
  /\ exam = ExamBase
  /\ paid = {"s1"}
  /\ saves = MaxSaves

SpecQ == InitQ /\ [][NextQ]_vars

\* one student takes the exam under each retake policy; no answer is saved
InitRetake ==
  /\ InitTables
  /\ exam \in {ExamManual, ExamRetakes, ExamMaxRetakes}
  /\ paid = {"s1"}
  /\ saves = MaxSaves

SpecRetake == InitRetake /\ [][Next]_vars

\* one student takes the exam with retakes and saves one answer
InitScore ==
  /\ InitTables
  /\ exam = ExamRetakes
  /\ paid = {"s1"}
  /\ saves = MaxSaves - 1

SpecScore == InitScore /\ [][Next]_vars

\* the student's requests, one saved answer, the manager's verification and question
\* management, on an exam with shuffled options and immediate release
InitFrame ==
  /\ InitTables
  /\ exam = ExamBase
  /\ paid = {"s1"}
  /\ saves = MaxSaves - 1

SpecFrame == InitFrame /\ [][NextQ]_vars

\* one student takes the exam with shuffled options and may choose any label or none
NextShuffle ==
  \/ \E s \in Students : start_exam(s)
  \/ \E s \in Students, aid \in AttemptIds, question_id \in QSet,
        selected_option \in {None} \cup {Some(label) : label \in Labels} :
       submit_answer(s, aid, question_id, selected_option, FALSE)
  \/ \E s \in Students, aid \in AttemptIds : submit_exam(s, aid)
  \/ Deliver
  \/ \E d \in TickChoices : Tick(d)

InitShuffle ==
  /\ InitTables
  /\ exam = ExamBase
  /\ paid = {"s1"}
  /\ saves = 0

SpecShuffle == InitShuffle /\ [][NextShuffle]_vars

\* the clock moves in steps of half a minute, so that a request can arrive at the very
\* second the duration of one minute ends
ExpiryTicks == {30}

NextExpiry ==
  \/ \E s \in Students : start_exam(s)
  \/ \E s \in Students, aid \in AttemptIds, question_id \in QSet, answer_data \in AnswerInputs :
       submit_answer(s, aid, question_id, answer_data.selected_option,
                     answer_data.marked_for_review)
  \/ \E s \in Students, aid \in AttemptIds : submit_exam(s, aid)
  \/ Deliver
  \/ \E d \in ExpiryTicks : Tick(d)

InitExpiry ==
  /\ InitTables
  /\ exam = ExamManual
  /\ paid = {"s1"}
  /\ saves = 0

SpecExpiry == InitExpiry /\ [][NextExpiry]_vars

\* the ExamSchedule rows a manager can have created for the exam
ScheduleRows ==
  [ batch_time : {"9AM-10AM", "3PM-4PM"},
    batch_identifier : {None, Some("A"), Some("B")},
    scheduled_date : {0, 1},
    start_time : {0},
    end_time : {40, ScheduleEnd},
    is_active : {TRUE} ]
    \cup
  [ batch_time : {"9AM-10AM"},
    batch_identifier : {None},
    scheduled_date : {0},
    start_time : {45},
    end_time : {ScheduleEnd},
    is_active : {TRUE, FALSE} ]

\* the exam_schedules tables of the model: no row, one row, two rows
ScheduleTables ==
  {<<>>} \cup {<<r>> : r \in ScheduleRows} \cup {<<r, q>> : r, q \in ScheduleRows}

\* any schedule table; both students have paid and ask to start
InitAnySchedule ==
  /\ now = 0
  /\ exam = ExamManual
  /\ questions = InitQuestions
  /\ schedules \in ScheduleTables
  /\ enrolled = Students
  /\ paid = Students
  /\ attempts = <<>>
  /\ answers = <<>>
  /\ edits = 0
  /\ saves = MaxSaves
  /\ inflight = <<>>
  /\ response = NoResponse

NextSchedule ==
  \/ \E s \in Students : start_exam(s)
  \/ Deliver
  \/ \E d \in TickChoices : Tick(d)

SpecSchedule == InitAnySchedule /\ [][NextSchedule]_vars

\* start_exam requests of one student overlap: each is three steps, check and two commits
NextConc ==
  \/ \E r \in RequestIds, s \in Students : start_exam_check(r, s)
  \/ \E r \in RequestIds : start_exam_commit(r)
  \/ \E r \in RequestIds : start_exam_finish(r)
  \/ \E s \in Students : start_exam(s)
  \/ \E s \in Students, aid \in AttemptIds : submit_exam(s, aid)
  \/ Deliver
  \/ \E d \in TickChoices : Tick(d)

\* the requests of one student on one attempt overlap: each is two steps, the query that
\* loads the attempt and the commit of what the request wrote; answers are for q1
NextRace ==
  \/ \E s \in Students : start_exam(s)
  \/ \E r \in RequestIds, s \in Students, aid \in AttemptIds : submit_exam_read(r, s, aid)
  \/ \E r \in RequestIds : submit_exam_write(r)
  \/ \E r \in RequestIds, s \in Students, aid \in AttemptIds, question_id \in {"q1"},
        answer_data \in AnswerInputs :
       submit_answer_read(r, s, aid, question_id, answer_data.selected_option,
                          answer_data.marked_for_review)
  \/ \E r \in RequestIds : submit_answer_write(r)
  \/ \E r \in RequestIds, s \in Students : start_exam_found(r, s)
  \/ \E r \in RequestIds : start_exam_timeout(r)
  \/ Deliver
  \/ \E d \in TickChoices : Tick(d)

InitRace ==
  /\ InitTables
  /\ exam = ExamManual
  /\ paid = {"s1"}
  /\ saves = MaxSaves

SpecRace == InitRace /\ [][NextRace]_vars

InitConc ==
  /\ InitTables
  /\ exam = ExamManual
  /\ paid = {"s1"}
  /\ saves = MaxSaves

SpecConc == InitConc /\ [][NextConc]_vars

(* ------------------------------ properties ---------------------------- *)
\* C1: once the status of an attempt is submitted, timed_out or completed no request
\* changes it again; a status only ever changes from in_progress to submitted or from
\* in_progress to timed_out, and no attempt row disappears.
C1_TerminalStatusIsFinal ==
  [][\A a \in 1..Len(attempts) :
       /\ a \in 1..Len(attempts')
       /\ attempts[a].status \in {"submitted", "timed_out", "completed"}
            => attempts'[a].status = attempts[a].status
       /\ attempts'[a].status # attempts[a].status
            => /\ attempts[a].status = "in_progress"
               /\ attempts'[a].status \in {"submitted", "timed_out"}]_vars

\* a student with a timed_out attempt and a later submitted one has just been refused a
\* second submit
C1_Witness ==
  /\ response.op = "submit_exam"
  /\ response.code = 400
  /\ \E a, b \in 1..Len(attempts) :
       /\ a < b
       /\ attempts[a].student_id = response.caller
       /\ attempts[b].student_id = response.caller
       /\ attempts[a].status = "timed_out"
       /\ attempts[b].status = "submitted"

\* C2: in every state, every entry of the results listing of a student is an attempt of
\* that student with is_verified = true; an attempt with is_verified = false is in no
\* student's listing.
C2_ResultsOwnAndVerified ==
  /\ \A s \in Students : \A e \in get_my_results(s) :
       /\ e.attempt_id \in 1..Len(attempts)
       /\ attempts[e.attempt_id].student_id = s
       /\ attempts[e.attempt_id].is_verified = TRUE
  /\ \A a \in 1..Len(attempts) :
       ~attempts[a].is_verified =>
         \A s \in Students : \A e \in get_my_results(s) : e.attempt_id # a

\* a student's listing shows a verified attempt while the other student has a finished
\* attempt that is not verified
C2_Witness ==
  \E s, o \in Students : \E a, b \in 1..Len(attempts) :
    /\ s # o
    /\ get_my_results(s) # {}
    /\ attempts[a].student_id = s /\ attempts[a].is_verified
    /\ attempts[b].student_id = o /\ ~attempts[b].is_verified
    /\ attempts[b].status \in {"submitted", "timed_out"}

\* C3: no response to a student carries grading outputs of an attempt whose is_verified
\* is false: not the summary submit_exam returns, not the best_score of the available
\* listing, not an entry of the results listing.
C3_NoScoreBeforeVerification ==
  /\ (response.op = "submit_exam" /\ response.code = 200
        /\ ~attempts[Val(response.attempt_id)].is_verified)
       => /\ response.body.obtained_marks = None
          /\ response.body.percentage = None
          /\ response.body.passed = None
  /\ \A s \in Students : \A e \in get_my_results(s) : attempts[e.attempt_id].is_verified
  /\ \A s \in Students : \A l \in get_available_exams(s) :
       (l # <<>> /\ l[1].best_score # None) =>
         \E a \in 1..Len(attempts) :
           /\ attempts[a].student_id = s
           /\ attempts[a].is_verified
           /\ attempts[a].percentage = l[1].best_score

\* C4: in every state each student has at most one attempt of the exam with status
\* in_progress, also when two start requests of the student overlap.
C4_OneInProgress ==
  \A s \in Students :
    Cardinality({a \in 1..Len(attempts) :
                   attempts[a].student_id = s /\ attempts[a].status = "in_progress"}) <= 1

C6_RowsMatchQuestionOrder ==
  \A a \in 1..Len(attempts) :
    LET rows == {i \in 1..Len(answers) : answers[i].attempt_id = a} IN
    /\ {answers[i].question_id : i \in rows}
         = {attempts[a].question_order[k] : k \in 1..Len(attempts[a].question_order)}
    /\ Cardinality(rows) = Len(attempts[a].question_order)

\* C7: a submit-answer request on the caller's in_progress attempt made more than
\* duration_minutes * 60 seconds after start_time is answered with the expiry error;
\* after it the attempt is timed_out with end_time = now and its grading aggregates set,
\* no StudentAnswer row is added, and the row of the named question keeps its
\* selected_option, marked_for_review and answered_at.
C7_ExpiredAnswerTimesOut ==
  [][\A s \in Students, a \in 1..Len(attempts), q \in QSet, d \in AnswerInputs :
       ( /\ submit_answer(s, a, q, d.selected_option, d.marked_for_review)
         /\ attempts[a].student_id = s
         /\ attempts[a].status = "in_progress"
         /\ now - attempts[a].start_time > exam.duration_minutes * 60 )
       => /\ response'.code = 400
          /\ response'.detail = "Exam time has expired"
          /\ attempts'[a].status = "timed_out"
          /\ attempts'[a].end_time = <<now>>
          /\ attempts'[a].total_marks # None
          /\ attempts'[a].obtained_marks # None
          /\ attempts'[a].percentage # None
          /\ attempts'[a].passed # None
          /\ Len(answers') = Len(answers)
          /\ \A i \in 1..Len(answers) :
               (answers[i].attempt_id = a /\ answers[i].question_id = q)
               => /\ answers'[i].attempt_id = a
                  /\ answers'[i].question_id = q
                  /\ answers'[i].selected_option = answers[i].selected_option
                  /\ answers'[i].marked_for_review = answers[i].marked_for_review
                  /\ answers'[i].answered_at = answers[i].answered_at]_vars

\* a submit-answer request has been refused for expiry: the attempt is timed_out at the
\* time of the request, graded, and still holds the answer saved before
C7_Witness ==
  /\ response.op = "submit_answer"
  /\ response.detail = "Exam time has expired"
  /\ \E a \in 1..Len(attempts) :
       /\ attempts[a].student_id = response.caller
       /\ attempts[a].status = "timed_out"
       /\ attempts[a].end_time = <<now>>
       /\ attempts[a].total_marks # None
       /\ \E i \in 1..Len(answers) :
            /\ answers[i].attempt_id = a
            /\ answers[i].selected_option # None
            /\ answers[i].answered_at # <<now>>

\* C8: a submit-exam request on the caller's in_progress attempt made more than the
\* exam's duration after start_time leaves the attempt timed_out and graded, not
\* submitted.
C8_ExpiredSubmitTimesOut ==
  [][\A s \in Students, a \in 1..Len(attempts) :
       ( /\ submit_exam(s, a)
         /\ attempts[a].student_id = s
         /\ attempts[a].status = "in_progress"
         /\ now - attempts[a].start_time > exam.duration_minutes * 60 )
       => /\ attempts'[a].status = "timed_out"
          /\ attempts'[a].total_marks # None]_vars

\* C9: a start request that passes the checks and finds the student's in_progress
\* attempt more than the exam's duration after its start_time sets the attempt to
\* timed_out with end_time = now and its grading aggregates, answers with the expiry
\* error and no questions, and adds no ExamAttempt row.
C9_ExpiredResumeTimesOut ==
  [][\A s \in Students, a \in 1..Len(attempts) :
       ( /\ start_exam(s)
         /\ exam.is_active /\ s \in enrolled /\ s \in paid
         /\ \A o \in check_exam_schedule(s) : o.ok
         /\ attempts[a].student_id = s
         /\ attempts[a].status = "in_progress"
         /\ now - attempts[a].start_time > exam.duration_minutes * 60 )
       => /\ response'.code = 400
          /\ response'.detail = "Exam time has expired"
          /\ response'.body = <<>>
          /\ attempts'[a].status = "timed_out"
          /\ attempts'[a].end_time = <<now>>
          /\ attempts'[a].total_marks # None
          /\ attempts'[a].obtained_marks # None
          /\ attempts'[a].percentage # None
          /\ attempts'[a].passed # None
          /\ Len(attempts') = Len(attempts)]_vars

\* a start request has been refused for expiry: the student's only attempt is timed_out
\* at the time of the request and graded
C9_Witness ==
  /\ response.op = "start_exam"
  /\ response.detail = "Exam time has expired"
  /\ Len(attempts) = 1
  /\ attempts[1].student_id = response.caller
  /\ attempts[1].status = "timed_out"
  /\ attempts[1].end_time = <<now>>
  /\ attempts[1].total_marks # None
  /\ attempts[1].passed # None

\* C10: when an attempt is graded (its status leaves in_progress), every StudentAnswer
\* row of the attempt with a selection has is_correct = (selected_option equals the
\* question's correct_option), a row without a selection is not correct, marks_obtained
\* is the question's marks on a correct row and 0 on any other; total_marks is the sum
\* of the marks of the questions of question_order, obtained_marks the sum of
\* marks_obtained, total_answered the number of rows with a selection and
\* correct_answers the number of correct rows.
C10_GradingIsExact ==
  [][\A a \in 1..Len(attempts) :
       (attempts[a].status = "in_progress" /\ attempts'[a].status # "in_progress")
       => LET rows == SelectSeq(answers', LAMBDA r : r.attempt_id = a)
              order == attempts'[a].question_order
              right(r) == /\ r.selected_option # <<>>
                          /\ r.selected_option[1] = questions[r.question_id].correct_option
          IN /\ \A i \in 1..Len(rows) :
                  /\ rows[i].selected_option # <<>> => rows[i].is_correct = <<right(rows[i])>>
                  /\ rows[i].selected_option = <<>> => rows[i].is_correct # <<TRUE>>
                  /\ rows[i].marks_obtained
                       = IF right(rows[i]) THEN questions[rows[i].question_id].marks ELSE 0
             /\ attempts'[a].total_marks
                  = <<SumSeq([k \in 1..Len(order) |-> questions[order[k]].marks])>>
             /\ attempts'[a].obtained_marks
                  = <<SumSeq([i \in 1..Len(rows) |-> rows[i].marks_obtained])>>
             /\ attempts'[a].total_answered
                  = Cardinality({i \in 1..Len(rows) : rows[i].selected_option # <<>>})
             /\ attempts'[a].correct_answers
                  = Cardinality({i \in 1..Len(rows) : right(rows[i])})]_vars

\* C11: in every state, every graded attempt has 0 <= percentage <= 100 and
\* 0 <= obtained_marks <= total_marks, percentage 0 when total_marks is 0, passed true
\* exactly when percentage >= exam.passing_marks, and total_marks equal to the sum of the
\* marks of the questions of its question_order.
C11_GradedAggregatesInRange ==
  \A a \in 1..Len(attempts) :
    attempts[a].percentage # <<>> =>
      LET pct == attempts[a].percentage[1]
          total == attempts[a].total_marks[1]
          obtained == attempts[a].obtained_marks[1]
          order == attempts[a].question_order
      IN /\ pct[2] > 0
         /\ 0 <= pct[1] /\ pct[1] <= 100 * pct[2]
         /\ 0 <= obtained /\ obtained <= total
         /\ total = 0 => pct[1] = 0
         /\ attempts[a].passed = <<pct[1] >= exam.passing_marks * pct[2]>>
         /\ total = SumSeq([k \in 1..Len(order) |-> questions[order[k]].marks])

\* C12: grading a terminal attempt a second time, with its answers and the questions as
\* they are, gives the same total_marks, obtained_marks, total_answered,
\* correct_answers, percentage and passed and the same is_correct and marks_obtained on
\* every StudentAnswer row.
C12_GradingIsIdempotent ==
  \A a \in 1..Len(attempts) :
    attempts[a].status \in {"submitted", "timed_out", "completed"} =>
      LET again == calculate_results(attempts[a], a, answers) IN
      /\ again.attempt.total_marks = attempts[a].total_marks
      /\ again.attempt.obtained_marks = attempts[a].obtained_marks
      /\ again.attempt.total_answered = attempts[a].total_answered
      /\ again.attempt.correct_answers = attempts[a].correct_answers
      /\ again.attempt.percentage = attempts[a].percentage
      /\ again.attempt.passed = attempts[a].passed
      /\ Len(again.answers) = Len(answers)
      /\ \A i \in 1..Len(answers) :
           /\ again.answers[i].is_correct = answers[i].is_correct
           /\ again.answers[i].marks_obtained = answers[i].marks_obtained

\* a graded attempt holds a correct answer, a wrong answer and marks obtained
C12_Witness ==
  \E a \in 1..Len(attempts) :
    /\ attempts[a].status \in {"submitted", "timed_out"}
    /\ attempts[a].obtained_marks # <<>>
    /\ attempts[a].obtained_marks[1] > 0
    /\ \E i, j \in 1..Len(answers) :
         /\ answers[i].attempt_id = a /\ answers[i].is_correct = <<TRUE>>
         /\ answers[j].attempt_id = a /\ answers[j].is_correct = <<FALSE>>

\* C13: a verify request succeeds only on an attempt that is terminal and not verified,
\* and then sets is_verified, verified_by = the caller, verified_at = now and the notes
\* of the request and nothing else; a manager of the exam's institution succeeds on such
\* an attempt; on an in_progress attempt or a verified attempt the request fails and no
\* field of any attempt changes.
C13_VerifyOnceOnly ==
  [][\A m \in Managers, a \in 1..Len(attempts), n \in VerifyNotes :
       verify_attempt(m, a, n) =>
         /\ response'.code = 200 =>
              /\ attempts[a].status \in {"submitted", "timed_out", "completed"}
              /\ ~attempts[a].is_verified
              /\ attempts' = [attempts EXCEPT ![a] =
                                [@ EXCEPT !.is_verified = TRUE, !.verified_by = <<m>>,
                                          !.verified_at = <<now>>, !.verification_notes = n]]
         /\ (attempts[a].status = "in_progress" \/ attempts[a].is_verified) =>
              /\ response'.code >= 400
              /\ attempts' = attempts
         /\ ( /\ attempts[a].status \in {"submitted", "timed_out", "completed"}
              /\ ~attempts[a].is_verified
              /\ HasAccess(m) ) => response'.code = 200]_vars

\* a second verify request, made after the first one, has been refused: the attempt
\* keeps the first verifier, the first time and the first notes
C13_Witness ==
  /\ response.op = "verify_attempt"
  /\ response.code = 400
  /\ response.detail = "Attempt already verified"
  /\ Len(attempts) = 1
  /\ attempts[1].verified_by = <<"m1">>
  /\ attempts[1].verified_at # <<>>
  /\ attempts[1].verified_at[1] < now
  /\ attempts[1].verification_notes = <<"ok">>

\* C14: an allow-retake request of a manager of the exam's institution on a terminal
\* attempt succeeds and sets retake_allowed with retake_allowed_by = the caller and
\* retake_allowed_at = now; an attempt that was not verified becomes verified by the
\* caller at now with the notes of the request, an attempt that was verified keeps
\* verified_by, verified_at and verification_notes; nothing else changes; the request
\* succeeds only on a terminal attempt, and on an in_progress attempt it fails and
\* changes nothing.
C14_RetakeGrantVerifies ==
  [][\A m \in Managers, a \in 1..Len(attempts), n \in RetakeNotes :
       allow_retake(m, a, n) =>
         /\ response'.code = 200 =>
              /\ attempts[a].status \in {"submitted", "timed_out", "completed"}
              /\ attempts'[a].retake_allowed = TRUE
              /\ attempts'[a].retake_allowed_by = <<m>>
              /\ attempts'[a].retake_allowed_at = <<now>>
              /\ attempts'[a].is_verified = TRUE
              /\ IF attempts[a].is_verified
                 THEN /\ attempts'[a].verified_by = attempts[a].verified_by
                      /\ attempts'[a].verified_at = attempts[a].verified_at
                      /\ attempts'[a].verification_notes = attempts[a].verification_notes
                 ELSE /\ attempts'[a].verified_by = <<m>>
                      /\ attempts'[a].verified_at = <<now>>
                      /\ attempts'[a].verification_notes = n
              /\ attempts' = [attempts EXCEPT ![a] =
                   [@ EXCEPT !.retake_allowed = TRUE, !.retake_allowed_by = <<m>>,
                             !.retake_allowed_at = <<now>>, !.is_verified = TRUE,
                             !.verified_by = attempts'[a].verified_by,
                             !.verified_at = attempts'[a].verified_at,
                             !.verification_notes = attempts'[a].verification_notes]]
         /\ (attempts[a].status \in {"submitted", "timed_out", "completed"} /\ HasAccess(m))
              => response'.code = 200
         /\ attempts[a].status = "in_progress" =>
              /\ response'.code >= 400
              /\ attempts' = attempts]_vars

\* an allow-retake request on an attempt nobody had verified has succeeded: the attempt
\* is retake_allowed and verified by the caller in the same step
C14_Witness ==
  /\ response.op = "allow_retake"
  /\ response.code = 200
  /\ ~exam.show_result_immediately
  /\ LET a == response.attempt_id[1] IN
     /\ attempts[a].retake_allowed
     /\ attempts[a].retake_allowed_by = <<response.caller>>
     /\ attempts[a].is_verified
     /\ attempts[a].verified_by = <<response.caller>>
     /\ attempts[a].verified_at = <<now>>
     /\ attempts[a].retake_allowed_at = <<now>>
     /\ now > 0

\* C15: a bulk verify request answers 200 whatever the list holds; it marks verified,
\* with verified_by = the caller and verified_at = now, exactly the attempts that are
\* listed, exist, belong to the caller's institution, are terminal and were not
\* verified, and leaves every other attempt as it was; verified_count is the number of
\* attempts that went from not verified to verified and total_requested is the length
\* of the list.
C15_BulkVerifyExact ==
  [][\A m \in Managers, ids \in BulkInputs :
       verify_bulk(m, ids) =>
         /\ response'.code = 200
         /\ Len(attempts') = Len(attempts)
         /\ \A a \in 1..Len(attempts) :
              IF /\ \E k \in 1..Len(ids) : ids[k] = a
                 /\ ManagerInstitution(m) = ExamInstitution
                 /\ attempts[a].status \in {"submitted", "timed_out", "completed"}
                 /\ ~attempts[a].is_verified
              THEN attempts'[a] = [attempts[a] EXCEPT !.is_verified = TRUE,
                                                       !.verified_by = <<m>>,
                                                       !.verified_at = <<now>>]
              ELSE attempts'[a] = attempts[a]
         /\ response'.body.verified_count
              = Cardinality({a \in 1..Len(attempts) :
                               ~attempts[a].is_verified /\ attempts'[a].is_verified})
         /\ response'.body.total_requested = Len(ids)]_vars

\* a bulk request that names one attempt twice and one id that does not exist has
\* verified that attempt and left the unverified attempt it does not name alone:
\* 1 verified of 3 requested
C15_Witness ==
  /\ response.op = "verify_bulk"
  /\ response.body.verified_count = 1
  /\ response.body.total_requested = 3
  /\ Len(attempts) = 2
  /\ attempts[2].is_verified
  /\ attempts[2].verified_at = <<now>>
  /\ attempts[1].status \in {"submitted", "timed_out"}
  /\ ~attempts[1].is_verified

\* C16: in the step that takes an attempt from in_progress to a terminal status (submit,
\* or the forced timeout of resume or answer), the attempt becomes verified, with
\* verified_at = now and no verifier, when the exam has show_result_immediately, and
\* stays not verified when it has not.
C16_ImmediateReleaseVerifies ==
  [][\A a \in 1..Len(attempts) :
       (attempts[a].status = "in_progress" /\ attempts'[a].status # "in_progress") =>
         IF exam.show_result_immediately
         THEN /\ attempts'[a].is_verified = TRUE
              /\ attempts'[a].verified_at = <<now>>
              /\ attempts'[a].verified_by = <<>>
         ELSE /\ attempts'[a].is_verified = FALSE
              /\ attempts'[a].verified_at = <<>>]_vars

\* an expired submit-answer request has timed out an attempt of an exam with
\* show_result_immediately: the attempt is verified and no manager verified it
C16_Witness ==
  /\ exam.show_result_immediately
  /\ response.op = "submit_answer"
  /\ response.detail = "Exam time has expired"
  /\ Len(attempts) = 1
  /\ attempts[1].status = "timed_out"
  /\ attempts[1].is_verified
  /\ attempts[1].verified_by = <<>>
  /\ attempts[1].verified_at = <<now>>

\* C17: a start request that passes the exam, enrollment, payment and schedule checks,
\* for a student with no in_progress attempt and at least one terminal attempt, is
\* refused with "already completed" when allow_retakes is false, else with "maximum
\* retake attempts reached" when max_retakes > 0 and the number of terminal attempts has
\* reached it, else with "awaiting retake permission" when the most recent terminal
\* attempt has no retake_allowed; a refusal adds no ExamAttempt and no StudentAnswer row
\* and changes none; otherwise the request creates the next attempt.
C17_RetakePolicyAtStart ==
  [][\A s \in Students :
       LET mine == {a \in 1..Len(attempts) : attempts[a].student_id = s}
           terminal == {a \in mine : attempts[a].status \in {"submitted", "timed_out", "completed"}}
           last == CHOOSE a \in terminal : \A b \in terminal : b <= a
           refused(reason) == /\ response'.code = 403
                              /\ response'.detail = reason
                              /\ attempts' = attempts
                              /\ answers' = answers
       IN ( /\ start_exam(s)
            /\ exam.is_active /\ s \in enrolled /\ s \in paid
            /\ \A o \in check_exam_schedule(s) : o.ok
            /\ terminal # {}
            /\ mine = terminal )
          => IF ~exam.allow_retakes
               THEN refused("Exam already completed, retakes not allowed")
             ELSE IF exam.max_retakes > 0 /\ Cardinality(terminal) >= exam.max_retakes
               THEN refused("Maximum retake attempts reached")
             ELSE IF ~attempts[last].retake_allowed
               THEN refused("Awaiting retake permission from manager")
             ELSE /\ response'.code = 200
                  /\ Len(attempts') = Len(attempts) + 1
                  /\ \A a \in 1..Len(attempts) : attempts'[a] = attempts[a]
                  /\ attempts'[Len(attempts')].student_id = s
                  /\ attempts'[Len(attempts')].status = "in_progress"
                  /\ attempts'[Len(attempts')].attempt_number = Cardinality(terminal) + 1
                  /\ response'.attempt_id = <<Len(attempts')>>]_vars

\* under max_retakes = 2 a student whose first attempt is terminal and carries the
\* manager's retake grant has just been given a second attempt
C17_Witness ==
  /\ exam.allow_retakes
  /\ exam.max_retakes = 2
  /\ response.op = "start_exam"
  /\ response.code = 200
  /\ response.attempt_id = <<2>>
  /\ Len(attempts) = 2
  /\ attempts[1].student_id = attempts[2].student_id
  /\ attempts[1].status \in {"submitted", "timed_out"}
  /\ attempts[1].retake_allowed
  /\ attempts[2].attempt_number = 2
  /\ attempts[2].start_time = now

\* C18: in every state, for every student the listing shows the exam to, the listing
\* reports is_locked = false exactly when a start request made in that state would pass
\* the payment check, the schedule check and, unless an in_progress attempt exists, the
\* retake policy; so with an in_progress attempt and payment and schedule in order the
\* exam is listed unlocked.
C18_ListingAgreesWithStart ==
  \A s \in enrolled :
    LET mine == {a \in 1..Len(attempts) : attempts[a].student_id = s}
        running == {a \in mine : attempts[a].status = "in_progress"}
        terminal == mine \ running
        last == CHOOSE a \in terminal : \A b \in terminal : b <= a
        policy == \/ terminal = {}
                  \/ /\ exam.allow_retakes
                     /\ exam.max_retakes = 0 \/ Cardinality(terminal) < exam.max_retakes
                     /\ attempts[last].retake_allowed
        start_passes == /\ s \in paid
                        /\ \A o \in check_exam_schedule(s) : o.ok
                        /\ running # {} \/ policy
    IN \A l \in get_available_exams(s) :
         l # <<>> => (l[1].lock.is_locked = FALSE <=> start_passes)

\* C19: in every state, in the listing of a student, best_score is the greatest
\* percentage among the student's terminal attempts with is_verified = true, and it is
\* absent exactly when the student has no verified terminal attempt.
C19_BestVerifiedScore ==
  \A s \in enrolled :
    LET verified == {a \in 1..Len(attempts) :
                       /\ attempts[a].student_id = s
                       /\ attempts[a].status \in {"submitted", "timed_out", "completed"}
                       /\ attempts[a].is_verified}
        pct(a) == attempts[a].percentage[1]
    IN \A l \in get_available_exams(s) :
         l # <<>> =>
           IF verified = {}
           THEN l[1].best_score = <<>>
           ELSE /\ l[1].best_score # <<>>
                /\ \E a \in verified :
                     /\ l[1].best_score = attempts[a].percentage
                     /\ \A b \in verified : pct(b)[1] * pct(a)[2] <= pct(a)[1] * pct(b)[2]

\* C20: in every state and for every schedule table, check_exam_schedule reports a
\* student as scheduled exactly when some active schedule of the exam has the student's
\* batch_time, today's date, a batch_identifier that is unset or equal to the student's
\* batch_identifier (a schedule with an identifier does not match a student without
\* one), and start_time <= now <= end_time.
C20_ScheduledIffWindowExists ==
  \A s \in Students :
    LET batch == StudentBatch(s)
        exists == \E i \in 1..Len(schedules) :
                    /\ schedules[i].is_active
                    /\ schedules[i].batch_time = batch.batch_time
                    /\ schedules[i].scheduled_date = 0
                    /\ \/ schedules[i].batch_identifier = <<>>
                       \/ schedules[i].batch_identifier = batch.batch_identifier
                    /\ schedules[i].start_time <= now
                    /\ now <= schedules[i].end_time
    IN \A o \in check_exam_schedule(s) : o.ok <=> exists

\* C21: question_order and answer_order of an attempt are written when the attempt is
\* created and no later request changes them: a resume, a saved answer, a submit, a
\* forced timeout with its grading, verify, allow-retake, bulk verify and the manager's
\* question management all leave both columns of every existing attempt as they were.
C21_OrdersAreFrozen ==
  [][\A a \in 1..Len(attempts) :
       /\ a \in 1..Len(attempts')
       /\ attempts'[a].question_order = attempts[a].question_order
       /\ attempts'[a].answer_order = attempts[a].answer_order]_vars

\* an attempt created with option maps has had an answer saved, was submitted and graded
\* and granted a retake, and the exam's questions were edited since: its question_order
\* is still the one of creation and differs from the exam's active questions now
C21_Witness ==
  /\ Len(attempts) >= 1
  /\ attempts[1].status = "submitted"
  /\ attempts[1].total_marks # None
  /\ attempts[1].retake_allowed
  /\ attempts[1].answer_order # <<>>
  /\ attempts[1].question_order = <<"q1", "q2">>
  /\ ActiveQuestions # <<"q1", "q2">>
  /\ edits > 0
  /\ \E i \in 1..Len(answers) : answers[i].attempt_id = 1 /\ answers[i].selected_option # None

\* whatever order the shuffle leaves the four options in, the map of shuffle_options
\* sends A, B, C, D one-to-one onto A, B, C, D
EveryShuffleIsBijection ==
  \A options \in OptionOrders :
    /\ DOMAIN shuffle_options(options) = Labels
    /\ {shuffle_options(options)[S] : S \in Labels} = Labels

\* C22: on an exam with shuffle_options, the map stored for every question of an
\* attempt's question_order sends the display labels A, B, C, D one-to-one onto the
\* original labels A, B, C, D (and so does the map built from any order the shuffle
\* leaves); the start response shows in slot S the original option map[S]; a saved
\* answer with display label S stores map[S], the only display label with that image
\* is S, and grading compares the stored label with correct_option.
C22_ShuffleRoundTrip ==
  /\ [](/\ EveryShuffleIsBijection
        /\ \A a \in 1..Len(attempts) : \A i \in 1..Len(attempts[a].question_order) :
             LET q == attempts[a].question_order[i] IN
             /\ attempts[a].answer_order # <<>>
             /\ q \in DOMAIN attempts[a].answer_order
             /\ DOMAIN attempts[a].answer_order[q] = Labels
             /\ {attempts[a].answer_order[q][S] : S \in Labels} = Labels
        /\ (response.op = "start_exam" /\ response.code = 200) =>
             \A i \in 1..Len(response.body.questions) : \A S \in Labels :
               response.body.options[i][S] =
                 <<response.body.questions[i],
                   attempts[response.body.attempt_id].answer_order[response.body.questions[i]][S]>>)
  /\ [][\A s \in Students, a \in 1..Len(attempts), q \in QSet, S \in Labels :
          ( /\ response'.op = "submit_answer"
            /\ response'.code = 200
            /\ q \in DOMAIN attempts[a].answer_order
            /\ submit_answer(s, a, q, <<S>>, FALSE) )
          => /\ \E i \in 1..Len(answers') :
                  answers'[i].attempt_id = a /\ answers'[i].question_id = q
             /\ \A i \in 1..Len(answers') :
                  (answers'[i].attempt_id = a /\ answers'[i].question_id = q)
                  => /\ answers'[i].selected_option = <<attempts[a].answer_order[q][S]>>
                     /\ \A T \in Labels :
                          attempts[a].answer_order[q][T] = answers'[i].selected_option[1]
                            => T = S]_vars
  /\ [][\A a \in 1..Len(attempts) :
          (attempts[a].status = "in_progress" /\ attempts'[a].status # "in_progress")
          => \A i \in 1..Len(answers') :
               ( /\ answers'[i].attempt_id = a
                 /\ answers'[i].selected_option # <<>>
                 /\ questions[answers'[i].question_id].row = "live" )
               => answers'[i].is_correct =
                    <<answers'[i].selected_option[1]
                        = questions[answers'[i].question_id].correct_option>>]_vars

\* the student chose display label C of q1 under the map A->B, B->C, C->A: the row holds
\* the original label A, which is q1's correct option, and the submitted attempt counts it
C22_Witness ==
  /\ Len(attempts) >= 1
  /\ attempts[1].status = "submitted"
  /\ attempts[1].answer_order["q1"]["C"] = "A"
  /\ attempts[1].answer_order["q1"]["A"] = "B"
  /\ \E i \in 1..Len(answers) :
       /\ answers[i].attempt_id = 1
       /\ answers[i].question_id = "q1"
       /\ answers[i].selected_option = <<"A">>
       /\ answers[i].is_correct = <<TRUE>>
  /\ attempts[1].obtained_marks = <<1>>

\* C23: a submit-answer request that is saved (question q of the caller's in_progress
\* attempt) writes one StudentAnswer row, the one of (attempt, q), creating it when it is
\* missing, and the attempt's time_remaining_seconds; every other row, every other
\* attempt and every other column of the attempt (status, end_time, the scoring fields,
\* the verification fields) stay as they were.  The row then holds the request's
\* selection (mapped through answer_order) and its marked_for_review whatever it held
\* before, so the same request made again leaves the same two values.
C23_SaveWritesOneRow ==
  [][\A s \in Students, a \in 1..Len(attempts), q \in QSet, inp \in AnswerInputs :
       ( /\ response'.op = "submit_answer"
         /\ response'.code = 200
         /\ submit_answer(s, a, q, inp.selected_option, inp.marked_for_review) )
       => /\ attempts[a].status = "in_progress"
          /\ attempts' = [attempts EXCEPT ![a].time_remaining_seconds =
                                            attempts'[a].time_remaining_seconds]
          /\ Len(answers') \in {Len(answers), Len(answers) + 1}
          /\ \A i \in 1..Len(answers) :
               \/ answers'[i] = answers[i]
               \/ /\ answers[i].attempt_id = a /\ answers[i].question_id = q
                  /\ answers'[i].attempt_id = a /\ answers'[i].question_id = q
                  /\ answers'[i].is_correct = answers[i].is_correct
                  /\ answers'[i].marks_obtained = answers[i].marks_obtained
          /\ Len(answers') = Len(answers) + 1 =>
               ~ \E i \in 1..Len(answers) :
                   answers[i].attempt_id = a /\ answers[i].question_id = q
          /\ \E i \in 1..Len(answers') :
               answers'[i].attempt_id = a /\ answers'[i].question_id = q
          /\ \A i \in 1..Len(answers') :
               (answers'[i].attempt_id = a /\ answers'[i].question_id = q)
               => /\ answers'[i].marked_for_review = inp.marked_for_review
                  /\ answers'[i].selected_option =
                       IF inp.selected_option # <<>> /\ q \in DOMAIN attempts[a].answer_order
                       THEN <<attempts[a].answer_order[q][inp.selected_option[1]]>>
                       ELSE inp.selected_option]_vars

\* the second saved answer of an attempt: q1 has just been saved at time 45, the row of
\* q2 still holds the selection saved at time 0, and the attempt is in progress with 15
\* seconds left and no score
C23_Witness ==
  /\ response.op = "submit_answer"
  /\ response.code = 200
  /\ now = 45
  /\ Len(attempts) = 1
  /\ attempts[1].status = "in_progress"
  /\ attempts[1].time_remaining_seconds = 15
  /\ attempts[1].total_marks = <<>>
  /\ \E i, j \in 1..Len(answers) :
       /\ answers[i].question_id = "q1"
       /\ answers[i].selected_option # <<>>
       /\ answers[i].answered_at = <<45>>
       /\ answers[j].question_id = "q2"
       /\ answers[j].selected_option # <<>>
       /\ answers[j].answered_at = <<0>>

\* C24: after every committed add-question, update-question (with or without a change
\* of is_active) and delete-question request, Exam.total_questions is the number of
\* Question rows of the exam with is_active = true; so it is after the delete of a
\* question that was inactive.
C24_TotalQuestionsIsActiveCount ==
  exam.total_questions =
    Cardinality({q \in QSet : questions[q].row = "live" /\ questions[q].is_active})

\* C25: the terminal transition is written once.  When two requests on the same attempt
\* have both read it as in_progress, the one that commits second changes nothing: the
\* status, end_time and grading outputs of an attempt that is submitted or timed_out are
\* never written again, and submitted never becomes timed_out nor timed_out submitted.
C25_TerminalWrittenOnce ==
  [][\A a \in 1..Len(attempts) :
       attempts[a].status \in {"submitted", "timed_out", "completed"}
       => /\ attempts'[a].status = attempts[a].status
          /\ attempts'[a].end_time = attempts[a].end_time
          /\ attempts'[a].total_marks = attempts[a].total_marks
          /\ attempts'[a].obtained_marks = attempts[a].obtained_marks
          /\ attempts'[a].percentage = attempts[a].percentage
          /\ attempts'[a].passed = attempts[a].passed
          /\ attempts'[a].total_answered = attempts[a].total_answered
          /\ attempts'[a].correct_answers = attempts[a].correct_answers]_vars

\* C26: no answer is committed to an attempt once it has been graded, under any
\* interleaving of a submit-answer request with a submit-exam or forced-timeout request:
\* in every state a submitted or timed_out attempt's is_correct flags, marks_obtained,
\* obtained_marks, total_answered and correct_answers are those of the selected_option
\* values its StudentAnswer rows hold.
C26_GradeMatchesPersistedAnswers ==
  \A a \in 1..Len(attempts) :
    attempts[a].status \in {"submitted", "timed_out", "completed"} =>
      LET rows == {i \in 1..Len(answers) :
                     answers[i].attempt_id = a /\ questions[answers[i].question_id].row = "live"}
          right(i) == /\ answers[i].selected_option # <<>>
                      /\ answers[i].selected_option[1]
                           = questions[answers[i].question_id].correct_option
      IN /\ \A i \in rows :
              /\ answers[i].selected_option # <<>> => answers[i].is_correct = <<right(i)>>
              /\ answers[i].marks_obtained =
                   IF right(i) THEN questions[answers[i].question_id].marks ELSE 0
         /\ attempts[a].total_answered
              = Cardinality({i \in rows : answers[i].selected_option # <<>>})
         /\ attempts[a].correct_answers = Cardinality({i \in rows : right(i)})
         /\ attempts[a].obtained_marks
              = <<SumSeq([i \in 1..Len(answers) |->
                            IF i \in rows /\ right(i)
                            THEN questions[answers[i].question_id].marks ELSE 0])>>

\* C27: creating an attempt and seeding its empty StudentAnswer rows is one atomic
\* write: in no committed state does an ExamAttempt row exist while a question of its
\* question_order has no StudentAnswer row of that attempt.
C27_AttemptHasItsRows ==
  \A a \in 1..Len(attempts) : \A k \in 1..Len(attempts[a].question_order) :
    \E i \in 1..Len(answers) :
      /\ answers[i].attempt_id = a
      /\ answers[i].question_id = attempts[a].question_order[k]

\* C28: in every state the student's and the manager's requests lead to, an attempt
\* that is verified is submitted, timed_out or completed; an attempt is in one of these
\* statuses exactly when its end_time is set and its total_marks, obtained_marks,
\* percentage and passed are set; and is_verified and retake_allowed, once true, stay
\* true.
C28_TerminalIffGraded ==
  /\ [](\A a \in 1..Len(attempts) :
          /\ attempts[a].is_verified
               => attempts[a].status \in {"submitted", "timed_out", "completed"}
          /\ attempts[a].status \in {"submitted", "timed_out", "completed"}
               <=> ( /\ attempts[a].end_time # <<>>
                     /\ attempts[a].total_marks # <<>>
                     /\ attempts[a].obtained_marks # <<>>
                     /\ attempts[a].percentage # <<>>
                     /\ attempts[a].passed # <<>> )
          /\ attempts[a].status \in {"submitted", "timed_out", "completed"}
               \/ ( /\ attempts[a].end_time = <<>>
                    /\ attempts[a].total_marks = <<>>
                    /\ attempts[a].obtained_marks = <<>>
                    /\ attempts[a].percentage = <<>>
                    /\ attempts[a].passed = <<>> ))
  /\ [][\A a \in 1..Len(attempts) :
          /\ attempts[a].is_verified => attempts'[a].is_verified
          /\ attempts[a].retake_allowed => attempts'[a].retake_allowed]_vars

\* a manager has verified a submitted attempt and then granted a retake on it: it has
\* its end_time and its grading outputs, and both flags are true
C28_Witness ==
  /\ Len(attempts) = 1
  /\ attempts[1].status = "submitted"
  /\ attempts[1].end_time # <<>>
  /\ attempts[1].passed # <<>>
  /\ attempts[1].is_verified
  /\ attempts[1].verified_by = <<"m1">>
  /\ attempts[1].verification_notes = <<"ok">>
  /\ attempts[1].retake_allowed
  /\ response.op = "allow_retake"

\* C29: a retake grant is used up by the attempt it allows.  A start request of a
\* student who passes the checks, has no in_progress attempt and has finished attempts
\* is refused, and creates nothing, whenever the student's latest attempt carries no
\* grant, whatever grants older attempts carry; the reason is "Awaiting retake
\* permission from manager" unless the exam forbids retakes or max_retakes is reached.
\* So every attempt of a student but the latest carries a grant, and a student never
\* has more attempts than 1 + the number of attempts a manager granted a retake on.
C29_GrantConsumedByUse ==
  /\ [](\A s \in Students :
          LET mine == {a \in 1..Len(attempts) : attempts[a].student_id = s} IN
          /\ \A a, b \in mine : a < b => attempts[a].retake_allowed
          /\ Cardinality(mine)
               <= 1 + Cardinality({a \in mine : attempts[a].retake_allowed}))
  /\ [][\A s \in Students :
          LET mine == {a \in 1..Len(attempts) : attempts[a].student_id = s}
              done == {a \in mine : attempts[a].status \in {"submitted", "timed_out", "completed"}}
          IN ( /\ start_exam(s)
               /\ exam.is_active /\ s \in enrolled /\ s \in paid
               /\ \A o \in check_exam_schedule(s) : o.ok
               /\ done # {}
               /\ done = mine
               /\ \E a \in mine : (\A b \in mine : b <= a) /\ ~attempts[a].retake_allowed )
             => /\ response'.code = 403
                /\ attempts' = attempts
                /\ answers' = answers
                /\ ( exam.allow_retakes
                     /\ ~(exam.max_retakes > 0 /\ Cardinality(done) >= exam.max_retakes) )
                   => response'.detail = "Awaiting retake permission from manager"]_vars

\* the grant on attempt 1 was used for attempt 2, which is finished and carries no
\* grant: the student's next start request has been refused for want of a grant,
\* although attempt 1 still carries its grant
C29_Witness ==
  /\ exam.allow_retakes
  /\ Len(attempts) = 2
  /\ attempts[1].student_id = "s1" /\ attempts[2].student_id = "s1"
  /\ attempts[1].retake_allowed
  /\ attempts[2].status \in {"submitted", "timed_out"}
  /\ ~attempts[2].retake_allowed
  /\ response.op = "start_exam"
  /\ response.code = 403
  /\ response.detail = "Awaiting retake permission from manager"

\* C30: resume and submit-answer apply the same expiry test.  At every instant, the
\* second at which elapsed equals the duration included, start/resume finds an
\* in_progress attempt expired exactly when submit-answer does; and a start request
\* forces an attempt to timed_out only at an instant at which an answer to it is refused
\* (elapsed greater than the duration).
C30_SameExpiryTest ==
  /\ [](\A a \in 1..Len(attempts) :
          attempts[a].status = "in_progress"
            => (ResumeExpired(attempts[a]) <=> AnswerExpired(attempts[a])))
  /\ [][\A s \in Students, a \in 1..Len(attempts) :
          ( /\ start_exam(s)
            /\ attempts[a].status = "in_progress"
            /\ attempts'[a].status = "timed_out" )
          => now - attempts[a].start_time > exam.duration_minutes * 60]_vars

====
